---- MODULE Spec2Model ----
(***************************************************************************)
(* A model of the WPRequest request builder (lib/WPRequest.js) and of the  *)
(* two resource subtypes exercised by tests/lib/taxonomies.js and          *)
(* tests/lib/users.js.                                                     *)
(*                                                                         *)
(* JavaScript values are records, so that values of different JavaScript   *)
(* types can be compared: null, undefined, false, strings, numbers,       *)
(* functions, Error objects and response payloads.                         *)
(***************************************************************************)
EXTENDS Integers, Sequences, FiniteSets, TLC

\* ------------------------------------------------------------------ bounds
MaxInstances == 2
MaxCalls == 2
MaxSteps == 4

\* ------------------------------------------------------- JavaScript values
Null == [null |-> TRUE]
Undefined == [undefined |-> TRUE]
False == [bool |-> FALSE]
Str(s) == [str |-> s]
Num(n) == [num |-> n]
Fn(name) == [fn |-> name]
Err(msg) == [error |-> msg]
Thrown(e) == [thrown |-> e]

IsStr(v) == "str" \in DOMAIN v
IsNum(v) == "num" \in DOMAIN v
IsFn(v) == "fn" \in DOMAIN v
IsThrown(v) == "thrown" \in DOMAIN v

\* ToBoolean: null, undefined, false, '' and 0 are falsy
Truthy(v) ==
    /\ v # Null
    /\ v # Undefined
    /\ v # False
    /\ v # Str("")
    /\ v # Num(0)

\* a || b
Or(a, b) == IF Truthy(a) THEN a ELSE b

\* ToString, as applied by the + operator and by Array.prototype.join
ToStr(v) ==
    IF IsStr(v) THEN v.str
    ELSE IF IsNum(v) THEN ToString(v.num)
    ELSE IF v = Null THEN "null"
    ELSE IF v = Undefined THEN "undefined"
    ELSE IF v = False THEN "false"
    ELSE "[object Object]"

\* a + b on a string operand
Concat(a, b) == Str(ToStr(a) \o ToStr(b))

\* Array.prototype.join on an array of strings
RECURSIVE Join(_, _)
Join(arr, sep) ==
    IF Len(arr) = 0 THEN ""
    ELSE IF Len(arr) = 1 THEN arr[1]
    ELSE arr[1] \o sep \o Join(Tail(arr), sep)

\* Array.prototype.indexOf, 1-based here, 0 standing for -1
RECURSIVE IndexFrom(_, _, _)
IndexFrom(arr, x, k) ==
    IF k > Len(arr) THEN 0
    ELSE IF arr[k] = x THEN k
    ELSE IndexFrom(arr, x, k + 1)
indexOf(arr, x) == IndexFrom(arr, x, 1)

\* String.prototype.toLowerCase on the verb names
toLowerCase(s) ==
    CASE s = "HEAD" -> "head"
      [] s = "GET" -> "get"
      [] s = "PUT" -> "put"
      [] s = "POST" -> "post"
      [] s = "PATCH" -> "patch"
      [] s = "DELETE" -> "delete"
      [] OTHER -> s

\* ------------------------------------------------------------------- state
VARIABLES
    heap,       \* the options objects: 0 is the caller's, i is instance i's own
    instances,  \* the request instances constructed so far
    calls,      \* the transport requests issued so far, with their promises
    last,       \* how the most recent method call ended
    steps       \* the number of operations performed so far

vars == <<heap, instances, calls, last, steps>>

\* the three documented options; a key that is absent reads as undefined
EmptyOptions == [endpoint |-> Undefined, username |-> Undefined, password |-> Undefined]
CallerOptions == [endpoint |-> Str("/wp-json/"), username |-> Str("admin"), password |-> Str("secret")]
TestOptions == [endpoint |-> Str("/wp-json/"), username |-> Undefined, password |-> Undefined]

Types == {"WPRequest", "TaxonomiesRequest", "UsersRequest"}
Verbs == {"head", "get", "put", "post", "patch", "delete"}
IdValues == {Str("my-tax"), Num(1337)}

CallerRef == 0

\* the fields each type's constructor initialises
ResourceFields(type) ==
    CASE type = "TaxonomiesRequest" -> {"_id", "_action", "_actionId"}
      [] type = "UsersRequest" -> {"_id"}
      [] OTHER -> {}

\* ------------------------------------------------------------ constructors
\* `options || {}`: the caller's object itself, or a fresh empty object
OptionsRef(self, options) == IF options = Undefined THEN self ELSE CallerRef

\* a base constructor that leaves the unimplemented patch out
WPRequestNoPatch(self, options) ==
    [ type |-> "WPRequest",
      _options |-> OptionsRef(self, options),
      _supportedMethods |-> <<"head", "get", "put", "post", "delete">>,
      _id |-> Undefined,
      _action |-> Undefined,
      _actionId |-> Undefined ]

WPRequest(self, options) ==
    [ type |-> "WPRequest",
      _options |-> OptionsRef(self, options),
      _supportedMethods |-> <<"head", "get", "put", "post", "patch", "delete">>,
      _id |-> Undefined,
      _action |-> Undefined,
      _actionId |-> Undefined ]

TaxonomiesRequest(self, options) ==
    [ WPRequest(self, options) EXCEPT
        !.type = "TaxonomiesRequest",
        !._id = Null,
        !._action = Null,
        !._actionId = Null,
        !._supportedMethods = <<"head", "get">> ]

UsersRequest(self, options) ==
    [ WPRequest(self, options) EXCEPT
        !.type = "UsersRequest",
        !._id = Null,
        !._supportedMethods = <<"head", "get", "post">> ]

New(type, self, options) ==
    CASE type = "TaxonomiesRequest" -> TaxonomiesRequest(self, options)
      [] type = "UsersRequest" -> UsersRequest(self, options)
      [] OTHER -> WPRequest(self, options)

Returned(op, i, value) == [op |-> op, inst |-> i, outcome |-> "returned", value |-> value]
Threw(op, i, e) == [op |-> op, inst |-> i, outcome |-> "threw", value |-> e]

\* new Type( options ), options being absent or the caller's options object
Construct(type, options) ==
    /\ Len(instances) < MaxInstances
    /\ LET self == Len(instances) + 1 IN
        /\ instances' = Append(instances, New(type, self, options))
        /\ heap' = IF options = Undefined
                   THEN [heap EXCEPT ![self] = EmptyOptions]
                   ELSE heap
        /\ last' = Returned("new", self, [instance |-> self])
    /\ UNCHANGED calls

\* instance._options = { endpoint: '/wp-json/' }, as the tests' beforeEach does
AssignOptions(i) ==
    /\ i \in DOMAIN instances
    /\ instances' = [instances EXCEPT ![i]._options = i]
    /\ heap' = [heap EXCEPT ![i] = TestOptions]
    /\ last' = Returned("_options=", i, Undefined)
    /\ UNCHANGED calls

\* instance._options.endpoint = value: a write to a property of the options
\* object the instance refers to, which is the caller's own object when one
\* was passed to the constructor
WriteEndpoint(i, value) ==
    /\ i \in DOMAIN instances
    /\ heap' = [heap EXCEPT ![instances[i]._options].endpoint = value]
    /\ last' = Returned("_options.endpoint=", i, Undefined)
    /\ UNCHANGED <<instances, calls>>

\* ----------------------------------------------------------- fluent setters
\* an id setter that overwrites the taxonomy id as well after terms()
TaxonomiesIdBoth(this, id) ==
    IF this._action = Str("terms")
    THEN [this EXCEPT !._actionId = id, !._id = id]
    ELSE [this EXCEPT !._id = id]

TaxonomiesId(this, id) ==
    IF this._action = Str("terms")
    THEN [this EXCEPT !._actionId = id]
    ELSE [this EXCEPT !._id = id]

UsersId(this, id) == [this EXCEPT !._id = id]

\* .id( x ) on a subtype instance
id(i, x) ==
    /\ i \in DOMAIN instances
    /\ instances[i].type \in {"TaxonomiesRequest", "UsersRequest"}
    /\ instances' = [instances EXCEPT ![i] =
            IF @.type = "TaxonomiesRequest" THEN TaxonomiesId(@, x) ELSE UsersId(@, x)]
    /\ last' = Returned("id", i, [instance |-> i])
    /\ UNCHANGED <<heap, calls>>

\* a terms() that starts the path over, dropping the taxonomy id
termsDropsId(i) ==
    /\ i \in DOMAIN instances
    /\ instances[i].type = "TaxonomiesRequest"
    /\ instances' = [instances EXCEPT ![i]._action = Str("terms"), ![i]._id = Null]
    /\ last' = Returned("terms", i, [instance |-> i])
    /\ UNCHANGED <<heap, calls>>

\* .terms() on a taxonomies instance
terms(i) ==
    /\ i \in DOMAIN instances
    /\ instances[i].type = "TaxonomiesRequest"
    /\ instances' = [instances EXCEPT ![i]._action = Str("terms")]
    /\ last' = Returned("terms", i, [instance |-> i])
    /\ UNCHANGED <<heap, calls>>

\* .me() on a users instance
me(i) ==
    /\ i \in DOMAIN instances
    /\ instances[i].type = "UsersRequest"
    /\ instances' = [instances EXCEPT ![i]._id = Str("me")]
    /\ last' = Returned("me", i, [instance |-> i])
    /\ UNCHANGED <<heap, calls>>

\* ----------------------------------------------------------- URI generation
\* WPRequest.prototype.generateRequestUri
generateRequestUri(this, options) == options.endpoint

\* the path segments of a subtype's URI: the fields that are not null, in order
RECURSIVE Segments(_)
Segments(fields) ==
    IF Len(fields) = 0 THEN <<>>
    ELSE IF Head(fields) = Null THEN Segments(Tail(fields))
    ELSE <<ToStr(Head(fields))>> \o Segments(Tail(fields))

\* a URI that puts a separator between the endpoint and the resource name
TaxonomiesUriEndpointSlash(this, options) ==
    Concat(options.endpoint,
           Str(Join(<<"", "taxonomies">> \o Segments(<<this._id, this._action, this._actionId>>), "/")))

TaxonomiesGenerateRequestUri(this, options) ==
    Concat(options.endpoint,
           Str(Join(<<"taxonomies">> \o Segments(<<this._id, this._action, this._actionId>>), "/")))

\* a URI that appends the me segment to the id instead of replacing it
UsersUriIdAndMe(this, options) ==
    Concat(options.endpoint,
           Str(Join(<<"users">> \o Segments(<<this._id>>)
                    \o (IF this._id = Str("me") THEN <<"me">> ELSE <<>>), "/")))

UsersGenerateRequestUri(this, options) ==
    Concat(options.endpoint,
           Str(Join(<<"users">> \o Segments(<<this._id>>), "/")))

\* this.generateRequestUri(), dispatched on the instance's prototype
RequestUri(i) ==
    LET this == instances[i]
        options == heap[this._options]
    IN  CASE this.type = "TaxonomiesRequest" -> TaxonomiesGenerateRequestUri(this, options)
          [] this.type = "UsersRequest" -> UsersGenerateRequestUri(this, options)
          [] OTHER -> generateRequestUri(this, options)

\* ------------------------------------------------------- transport adapter
\* agent.get( url ), agent.post( url ), ...: a request that is not sent yet
agent(method, url) == [method |-> method, url |-> url, Authorization |-> Undefined, data |-> Undefined]
\* request.set( 'Authorization', value )
set(request, value) == [request EXCEPT !.Authorization = value]
\* request.send( data )
send(request, data) == [request EXCEPT !.data = data]

EmptyObject == [object |-> "{}"]
Payload == [object |-> "{title}"]
DataValues == {Undefined, Payload}
CallbackValues == {Undefined, Fn("callback")}

\* what the transport hands to request.end's callback for request k
Result(k, error) == [body |-> [body |-> k], headers |-> [headers |-> k], error |-> error]
TransportErr(msg, k) == [error |-> msg, request |-> k]
Success(k) == [err |-> Null, result |-> Result(k, False)]
HttpError(k) == [err |-> Null, result |-> Result(k, TransportErr("404", k))]
ErrWithResult(k) == [err |-> TransportErr("Not Found", k), result |-> Result(k, TransportErr("404", k))]
ErrNoResult(k) == [err |-> TransportErr("ECONNREFUSED", k), result |-> Undefined]
Responses(k) == {Success(k), HttpError(k), ErrWithResult(k), ErrNoResult(k)}
NoResponse == [err |-> Undefined, result |-> Undefined]

\* ------------------------------------------------------------------ helpers
TypeError == Thrown(Err("TypeError"))

noop == Fn("noop")

identity(value) == value

ensureFunction(fn) == IF IsFn(fn) THEN fn ELSE noop

\* result.body; reading a property of undefined or null throws
returnBody(result) ==
    IF result = Undefined \/ result = Null THEN TypeError ELSE result.body

\* the headers transform reading the body instead
returnHeadersAsBody(result) ==
    IF result = Undefined \/ result = Null THEN TypeError ELSE result.body

returnHeaders(result) ==
    IF result = Undefined \/ result = Null THEN TypeError ELSE result.headers

\* transform( result )
Apply(transform, result) ==
    CASE transform = Fn("returnBody") -> returnBody(result)
      [] transform = Fn("returnHeaders") -> returnHeaders(result)
      [] OTHER -> identity(result)

Event(ev, a, b) == [ev |-> ev, a |-> a, b |-> b]

\* callback( err, value ): a caller's callback is recorded, noop does nothing
Invoke(callback, err, value, log) ==
    IF callback = noop THEN log
    ELSE Append(log, Event("callback", err, value))

\* invokeAndPromisify up to request.end( ... ): the request is sent and the
\* promise is pending
invokeAndPromisify(request, callback, transform) ==
    [ request |-> request,
      callback |-> ensureFunction(callback),
      transform |-> Or(transform, Fn("identity")),
      status |-> "pending",
      response |-> NoResponse,
      log |-> <<>> ]

\* the end callback settling the promise before it invokes the callback
endHandlerSettlesFirst(io, err, result) ==
    LET value == Apply(io.transform, result)
        delivered == [io EXCEPT !.response = [err |-> err, result |-> result]]
        error == IF Truthy(err) THEN err
                 ELSE IF result = Undefined \/ result = Null THEN TypeError
                 ELSE result.error
    IN  IF IsThrown(error) \/ IsThrown(value)
        THEN [delivered EXCEPT !.status = "threw"]
        ELSE LET settled == IF Truthy(error)
                            THEN Append(io.log, Event("reject", error, Undefined))
                            ELSE Append(io.log, Event("resolve", value, Undefined))
             IN  [delivered EXCEPT !.status = "ended",
                                   !.log = Invoke(io.callback, err, value, settled)]

\* the function invokeAndPromisify passes to request.end
endHandler(io, err, result) ==
    LET value == Apply(io.transform, result)
        delivered == [io EXCEPT !.response = [err |-> err, result |-> result]]
    IN  IF IsThrown(value)
        THEN [delivered EXCEPT !.status = "threw"]
        ELSE LET called == Invoke(io.callback, err, value, io.log)
                 error == IF Truthy(err) THEN err
                          ELSE IF result = Undefined \/ result = Null THEN TypeError
                          ELSE result.error
             IN  IF IsThrown(error)
                 THEN [delivered EXCEPT !.status = "threw", !.log = called]
                 ELSE IF Truthy(error)
                 THEN [delivered EXCEPT !.status = "ended",
                                        !.log = Append(called, Event("reject", error, Undefined))]
                 ELSE [delivered EXCEPT !.status = "ended",
                                        !.log = Append(called, Event("resolve", value, Undefined))]

\* -------------------------------------------------------- prototype methods
True == [bool |-> TRUE]

\* a support check that accepts every method
checkMethodSupportAlways(this, method) == True

_checkMethodSupport(this, method) ==
    IF indexOf(this._supportedMethods, toLowerCase(method)) = 0
    THEN Thrown(Err("Unsupported method; supported methods are: "
                    \o Join(this._supportedMethods, ", ")))
    ELSE True

\* a promise that .then was not called on
NoChain == [chained |-> FALSE, onFulfilled |-> Undefined, log |-> <<>>]

\* promise.then( callback ): the promise derived from the request's promise
Chain(callback) == [chained |-> TRUE, onFulfilled |-> callback, log |-> <<>>]

\* a verb method that sends its request twice
IssueTwice(op, i, request, callback, transform) ==
    /\ Len(calls) < MaxCalls
    /\ calls' = calls \o
            << [inst |-> i, op |-> op,
                io |-> invokeAndPromisify(request, callback, transform), chain |-> NoChain],
               [inst |-> i, op |-> op,
                io |-> invokeAndPromisify(request, callback, transform), chain |-> NoChain] >>
    /\ last' = Returned(op, i, [promise |-> Len(calls) + 1])
    /\ UNCHANGED <<heap, instances>>

\* the method returns the promise of a new transport request
Issue(op, i, request, callback, transform) ==
    /\ Len(calls) < MaxCalls
    /\ calls' = Append(calls, [inst |-> i, op |-> op,
                               io |-> invokeAndPromisify(request, callback, transform),
                               chain |-> NoChain])
    /\ last' = Returned(op, i, [promise |-> Len(calls) + 1])
    /\ UNCHANGED <<heap, instances>>

\* the method throws
Raise(op, i, thrown) ==
    /\ last' = Threw(op, i, thrown.thrown)
    /\ UNCHANGED <<heap, instances, calls>>

\* this._options.username + ':' + this._options.password
Auth(i) ==
    LET options == heap[instances[i]._options]
    IN  Concat(Concat(options.username, Str(":")), options.password)

\* a get that consumes the instance: the request is issued and the id is reset
getConsumesState(i, callback) ==
    /\ i \in DOMAIN instances
    /\ LET supported == _checkMethodSupport(instances[i], "get") IN
        IF IsThrown(supported) THEN Raise("get", i, supported)
        ELSE /\ Len(calls) < MaxCalls
             /\ calls' = Append(calls,
                    [inst |-> i, op |-> "get",
                     io |-> invokeAndPromisify(agent("get", RequestUri(i)), callback,
                                               Fn("returnBody")),
                     chain |-> NoChain])
             /\ last' = Returned("get", i, [promise |-> Len(calls) + 1])
             /\ instances' = [instances EXCEPT ![i]._id = Null]
             /\ UNCHANGED heap

get(i, callback) ==
    /\ i \in DOMAIN instances
    /\ LET supported == _checkMethodSupport(instances[i], "get") IN
        IF IsThrown(supported) THEN Raise("get", i, supported)
        ELSE Issue("get", i, agent("get", RequestUri(i)), callback, Fn("returnBody"))

post(i, data, callback) ==
    /\ i \in DOMAIN instances
    /\ LET supported == _checkMethodSupport(instances[i], "post") IN
        IF IsThrown(supported) THEN Raise("post", i, supported)
        ELSE Issue("post", i,
                   send(set(agent("post", RequestUri(i)), Auth(i)), Or(data, EmptyObject)),
                   callback, Fn("returnBody"))

put(i, data, callback) ==
    /\ i \in DOMAIN instances
    /\ LET supported == _checkMethodSupport(instances[i], "put") IN
        IF IsThrown(supported) THEN Raise("put", i, supported)
        ELSE Issue("put", i,
                   send(set(agent("put", RequestUri(i)), Auth(i)), Or(data, EmptyObject)),
                   callback, Fn("returnBody"))

\* a patch that sends a request the way get does
patchSendsRequest(i, callback) ==
    /\ i \in DOMAIN instances
    /\ LET supported == _checkMethodSupport(instances[i], "patch") IN
        IF IsThrown(supported) THEN Raise("patch", i, supported)
        ELSE Issue("patch", i, agent("patch", RequestUri(i)), callback, Fn("returnBody"))

patch(i, callback) ==
    /\ i \in DOMAIN instances
    /\ LET supported == _checkMethodSupport(instances[i], "patch") IN
        IF IsThrown(supported) THEN Raise("patch", i, supported)
        ELSE /\ last' = Returned("patch", i, Undefined)
             /\ UNCHANGED <<heap, instances, calls>>

\* a delete that sends no credentials
deleteNoAuth(i, callback) ==
    /\ i \in DOMAIN instances
    /\ LET supported == _checkMethodSupport(instances[i], "delete") IN
        IF IsThrown(supported) THEN Raise("delete", i, supported)
        ELSE Issue("delete", i, agent("del", RequestUri(i)), callback, Fn("returnBody"))

delete(i, callback) ==
    /\ i \in DOMAIN instances
    /\ LET supported == _checkMethodSupport(instances[i], "delete") IN
        IF IsThrown(supported) THEN Raise("delete", i, supported)
        ELSE Issue("delete", i, set(agent("del", RequestUri(i)), Auth(i)),
                   callback, Fn("returnBody"))

\* a head that asks the transport for a get
headViaGet(i, callback) ==
    /\ i \in DOMAIN instances
    /\ LET supported == _checkMethodSupport(instances[i], "head") IN
        IF IsThrown(supported) THEN Raise("head", i, supported)
        ELSE Issue("head", i, agent("get", RequestUri(i)), callback, Fn("returnHeaders"))

head(i, callback) ==
    /\ i \in DOMAIN instances
    /\ LET supported == _checkMethodSupport(instances[i], "head") IN
        IF IsThrown(supported) THEN Raise("head", i, supported)
        ELSE Issue("head", i, agent("head", RequestUri(i)), callback, Fn("returnHeaders"))

\* a then that invokes head instead of get
thenViaHead(i, callback) ==
    /\ i \in DOMAIN instances
    /\ LET supported == _checkMethodSupport(instances[i], "head") IN
        IF IsThrown(supported) THEN Raise("then", i, supported)
        ELSE /\ Len(calls) < MaxCalls
             /\ calls' = Append(calls,
                    [inst |-> i, op |-> "head",
                     io |-> invokeAndPromisify(agent("head", RequestUri(i)), Undefined,
                                               Fn("returnHeaders")),
                     chain |-> Chain(callback)])
             /\ last' = Returned("then", i, [derived |-> Len(calls) + 1])
             /\ UNCHANGED <<heap, instances>>

\* this.get().then( callback ): get is called with no callback
then(i, callback) ==
    /\ i \in DOMAIN instances
    /\ LET supported == _checkMethodSupport(instances[i], "get") IN
        IF IsThrown(supported) THEN Raise("then", i, supported)
        ELSE /\ Len(calls) < MaxCalls
             /\ calls' = Append(calls,
                    [inst |-> i, op |-> "get",
                     io |-> invokeAndPromisify(agent("get", RequestUri(i)), Undefined,
                                               Fn("returnBody")),
                     chain |-> Chain(callback)])
             /\ last' = Returned("then", i, [derived |-> Len(calls) + 1])
             /\ UNCHANGED <<heap, instances>>

\* the reaction of a derived promise once the request's promise has settled:
\* a function passed to then receives the value, anything else lets it
\* through, and a rejection passes to the derived promise
React(call) ==
    LET settled == SelectSeq(call.io.log, LAMBDA e : e.ev \in {"resolve", "reject"})
    IN  IF ~call.chain.chained \/ Len(settled) = 0 THEN call
        ELSE IF settled[1].ev = "reject"
        THEN [call EXCEPT !.chain.log = <<Event("reject", settled[1].a, Undefined)>>]
        ELSE IF IsFn(call.chain.onFulfilled)
        THEN [call EXCEPT !.chain.log = <<Event("onFulfilled", settled[1].a, Undefined)>>]
        ELSE [call EXCEPT !.chain.log = <<Event("resolve", settled[1].a, Undefined)>>]

\* a transport whose answer to request k reaches every request in flight
DeliverToAll(k, response) ==
    /\ k \in DOMAIN calls
    /\ calls[k].io.status = "pending"
    /\ calls' = [n \in DOMAIN calls |->
            IF calls[n].io.status = "pending"
            THEN React([calls[n] EXCEPT
                    !.io = endHandler(calls[n].io, response.err, response.result)])
            ELSE calls[n]]
    /\ UNCHANGED <<heap, instances, last>>

\* the transport answers request k: request.end's callback runs, and then the
\* reactions of the promise it settled
Deliver(k, response) ==
    /\ k \in DOMAIN calls
    /\ calls[k].io.status = "pending"
    /\ calls' = [calls EXCEPT ![k] =
            React([calls[k] EXCEPT
                    !.io = endHandler(calls[k].io, response.err, response.result)])]
    /\ UNCHANGED <<heap, instances, last>>

\* ------------------------------------------------------------ specification
Init ==
    /\ heap = [r \in 0..MaxInstances |-> IF r = CallerRef THEN CallerOptions ELSE EmptyOptions]
    /\ instances = <<>>
    /\ calls = <<>>
    /\ last = [op |-> "none", inst |-> 0, outcome |-> "none", value |-> Undefined]
    /\ steps = 0

Instances == 1..MaxInstances
Calls == 1..MaxCalls

\* one more operation, while the run has fewer than MaxSteps of them
Step == steps < MaxSteps /\ steps' = steps + 1

\* every run of at most MaxSteps operations
Next ==
    \/ \E type \in Types, options \in {Undefined, CallerOptions} : Step /\ Construct(type, options)
    \/ \E i \in Instances : Step /\ AssignOptions(i)
    \/ \E i \in Instances, x \in IdValues : Step /\ id(i, x)
    \/ \E i \in Instances : Step /\ terms(i)
    \/ \E i \in Instances : Step /\ me(i)
    \/ \E i \in Instances, callback \in CallbackValues : Step /\ get(i, callback)
    \/ \E i \in Instances, data \in DataValues, callback \in CallbackValues :
            Step /\ post(i, data, callback)
    \/ \E i \in Instances, data \in DataValues, callback \in CallbackValues :
            Step /\ put(i, data, callback)
    \/ \E i \in Instances, callback \in CallbackValues : Step /\ patch(i, callback)
    \/ \E i \in Instances, callback \in CallbackValues : Step /\ delete(i, callback)
    \/ \E i \in Instances, callback \in CallbackValues : Step /\ head(i, callback)
    \/ \E i \in Instances, callback \in CallbackValues : Step /\ then(i, callback)
    \/ \E i \in Instances : Step /\ WriteEndpoint(i, Str("/api/"))
    \/ \E k \in Calls : \E response \in Responses(k) : Step /\ Deliver(k, response)

Spec == Init /\ [][Next]_vars

\* every run of the builder operations alone, of any length
NextBuild ==
    \/ \E type \in Types, options \in {Undefined, CallerOptions} :
            Construct(type, options) /\ UNCHANGED steps
    \/ \E i \in Instances : AssignOptions(i) /\ UNCHANGED steps
    \/ \E i \in Instances, x \in IdValues : id(i, x) /\ UNCHANGED steps
    \/ \E i \in Instances : terms(i) /\ UNCHANGED steps
    \/ \E i \in Instances : me(i) /\ UNCHANGED steps

SpecBuild == Init /\ [][NextBuild]_vars

\* ------------------------------------------------------------- observations
\* whether the instance's permitted-verb set holds the verb
Permits(i, verb) ==
    \E n \in DOMAIN instances[i]._supportedMethods : instances[i]._supportedMethods[n] = verb

\* the unsupported-method error of each narrowed type
UnsupportedMethodError(type) ==
    IF type = "TaxonomiesRequest"
    THEN Err("Unsupported method; supported methods are: head, get")
    ELSE Err("Unsupported method; supported methods are: head, get, post")

\* instance.verb( data, callback ), data being read by post and put only
Invocation(i, verb, data, callback) ==
    CASE verb = "get" -> get(i, callback)
      [] verb = "post" -> post(i, data, callback)
      [] verb = "put" -> put(i, data, callback)
      [] verb = "patch" -> patch(i, callback)
      [] verb = "delete" -> delete(i, callback)
      [] OTHER -> head(i, callback)

\* the data arguments a verb method can be called with
DataOf(verb) == IF verb \in {"post", "put"} THEN DataValues ELSE {Undefined}

\* what the caller of request k saw: the arguments its callback was called
\* with, the values its promise was resolved with, the reasons it was rejected with
CallbackCalls(io) == SelectSeq(io.log, LAMBDA e : e.ev = "callback")
Resolutions(io) == SelectSeq(io.log, LAMBDA e : e.ev = "resolve")
Rejections(io) == SelectSeq(io.log, LAMBDA e : e.ev = "reject")
HasCallback(io) == io.callback = Fn("callback")
Answered(io) == io.status # "pending"

HasResult(response) == "body" \in DOMAIN response.result
IsSuccess(response) ==
    /\ response.err = Null
    /\ HasResult(response)
    /\ response.result.error = False
IsError(response) ==
    \/ response.err # Null
    \/ HasResult(response) /\ response.result.error # False

\* C1: invoking a verb that the instance's permitted-verb set excludes throws
\* the unsupported-method error, and that invocation issues no transport call,
\* invokes no callback and creates no promise.
C1_UnsupportedVerbThrows ==
    [][\A i \in DOMAIN instances, verb \in Verbs :
        (~Permits(i, verb) /\ last'.op = verb /\ last'.inst = i)
        => \A data \in DataOf(verb), callback \in CallbackValues :
            Invocation(i, verb, data, callback)
            => /\ last' = Threw(verb, i, UnsupportedMethodError(instances[i].type))
               /\ calls' = calls]_vars

\* a taxonomies instance refused post, and a users instance refused delete
C1_Witness ==
    /\ Len(instances) = 2
    /\ instances[1].type = "TaxonomiesRequest"
    /\ instances[2].type = "UsersRequest"
    /\ last = Threw("delete", 2, UnsupportedMethodError("UsersRequest"))
    /\ calls = <<>>

\* C2: after a successful response the promise is resolved with the response's
\* body (its headers for head), and a supplied callback received that same
\* value as its second argument.
C2_SuccessValue ==
    \A k \in DOMAIN calls :
        LET io == calls[k].io
            expected == IF calls[k].op = "head"
                        THEN io.response.result.headers
                        ELSE io.response.result.body
        IN  (Answered(io) /\ IsSuccess(io.response))
            => /\ Resolutions(io) = <<Event("resolve", expected, Undefined)>>
               /\ Rejections(io) = <<>>
               /\ HasCallback(io) =>
                    /\ Len(CallbackCalls(io)) = 1
                    /\ CallbackCalls(io)[1].b = expected
                    /\ CallbackCalls(io)[1].b = Resolutions(io)[1].a

\* a head with a callback was answered successfully while a post is in flight
C2_Witness ==
    /\ Len(calls) = 2
    /\ calls[1].op = "post"
    /\ calls[2].op = "head"
    /\ HasCallback(calls[2].io)
    /\ Answered(calls[2].io)
    /\ IsSuccess(calls[2].io.response)
    /\ Len(CallbackCalls(calls[2].io)) = 1
    /\ Len(Resolutions(calls[2].io)) = 1

\* C3 (as claimed): after an error response (a non-null err, or a result with
\* result.error) the reason the promise is rejected with is the first argument
\* that a supplied callback received.
C3_ErrorToBothPaths ==
    \A k \in DOMAIN calls :
        LET io == calls[k].io
        IN  (Answered(io) /\ IsError(io.response) /\ HasCallback(io) /\ Len(Rejections(io)) = 1)
            => /\ Len(CallbackCalls(io)) = 1
               /\ CallbackCalls(io)[1].a = Rejections(io)[1].a

\* C4 (as claimed): once the transport has delivered its response, whatever
\* it is, a supplied callback has been invoked and the promise is resolved or
\* rejected.
C4_ResponseSettles ==
    \A k \in DOMAIN calls :
        LET io == calls[k].io
        IN  Answered(io)
            => /\ Len(Resolutions(io)) + Len(Rejections(io)) = 1
               /\ HasCallback(io) => Len(CallbackCalls(io)) = 1

\* C5: in the order of events of one invocation, the promise is never resolved
\* or rejected before the invocation's callback has been called.
C5_CallbackBeforeSettle ==
    \A k \in DOMAIN calls :
        LET io == calls[k].io
        IN  HasCallback(io) =>
                \A n \in DOMAIN io.log :
                    io.log[n].ev \in {"resolve", "reject"}
                    => \E m \in 1..(n - 1) : io.log[m].ev = "callback"

\* an invocation with a callback was rejected after its callback was called
C5_Witness ==
    \E k \in DOMAIN calls :
        /\ HasCallback(calls[k].io)
        /\ Len(calls[k].io.log) = 2
        /\ calls[k].io.log[1].ev = "callback"
        /\ calls[k].io.log[2].ev = "reject"

\* the text of each id value in a URI
Lit(v) == IF v = Num(1337) THEN "1337" ELSE IF v = Str("my-tax") THEN "my-tax" ELSE "terms"
\* the segment a field contributes to a URI: nothing when it is null
Seg(v) == IF v = Null THEN "" ELSE "/" \o Lit(v)
HasEndpoint(i) == heap[instances[i]._options].endpoint = Str("/wp-json/")

\* C6: with endpoint '/wp-json/' a taxonomies instance's URI is
\* '/wp-json/taxonomies' followed by '/{id}', '/terms' and '/{actionId}' for
\* exactly the fields that are not null: the four URIs of the tests, and no
\* other segment or separator.
C6_TaxonomiesUri ==
    \A i \in DOMAIN instances :
        LET this == instances[i]
            uri == RequestUri(i)
        IN  (this.type = "TaxonomiesRequest" /\ HasEndpoint(i))
            => /\ uri = Str("/wp-json/taxonomies" \o Seg(this._id) \o Seg(this._action)
                            \o Seg(this._actionId))
               /\ (this._id = Null /\ this._action = Null)
                    => uri = Str("/wp-json/taxonomies")
               /\ (this._id = Str("my-tax") /\ this._action = Null)
                    => uri = Str("/wp-json/taxonomies/my-tax")
               /\ (this._id = Str("my-tax") /\ this._action # Null /\ this._actionId = Null)
                    => uri = Str("/wp-json/taxonomies/my-tax/terms")
               /\ (this._id = Str("my-tax") /\ this._action # Null /\ this._actionId = Num(1337))
                    => uri = Str("/wp-json/taxonomies/my-tax/terms/1337")

\* id('my-tax').terms().id(1337) was called on a taxonomies instance
C6_Witness ==
    \E i \in DOMAIN instances :
        /\ instances[i].type = "TaxonomiesRequest"
        /\ HasEndpoint(i)
        /\ instances[i]._id = Str("my-tax")
        /\ instances[i]._action = Str("terms")
        /\ instances[i]._actionId = Num(1337)
        /\ last = Returned("id", i, [instance |-> i])

UsersUris ==
    { Str("/wp-json/users"), Str("/wp-json/users/me"),
      Str("/wp-json/users/1337"), Str("/wp-json/users/my-tax") }

\* C7: with endpoint '/wp-json/' a users instance's URI is always one of
\* '/wp-json/users', '/wp-json/users/me' and '/wp-json/users/{n}'; it is
\* '/wp-json/users' until a setter is called, '/wp-json/users/me' right after
\* me() and '/wp-json/users/{n}' right after id(n), so never both segments.
C7_UsersUri ==
    [][\A i \in DOMAIN instances' :
        (instances'[i].type = "UsersRequest" /\ HasEndpoint(i)')
        => /\ RequestUri(i)' \in UsersUris
           /\ (/\ i \notin DOMAIN instances
               /\ \E options \in {Undefined, CallerOptions} : Construct("UsersRequest", options))
                => RequestUri(i)' = Str("/wp-json/users")
           /\ (i \in DOMAIN instances /\ AssignOptions(i) /\ instances[i]._id = Null)
                => RequestUri(i)' = Str("/wp-json/users")
           /\ (i \in DOMAIN instances /\ me(i))
                => RequestUri(i)' = Str("/wp-json/users/me")
           /\ \A x \in IdValues :
                (i \in DOMAIN instances /\ id(i, x))
                => RequestUri(i)' = Str("/wp-json/users/" \o Lit(x))]_vars

\* me() was called on a users instance that id(1337) had been called on
C7_Witness ==
    \E i \in DOMAIN instances :
        /\ instances[i].type = "UsersRequest"
        /\ HasEndpoint(i)
        /\ last = Returned("me", i, [instance |-> i])
        /\ \E j \in DOMAIN instances :
            /\ j # i
            /\ instances[j].type = "UsersRequest"
            /\ RequestUri(j) = Str("/wp-json/users/1337")

DocumentedMethods(type) ==
    CASE type = "TaxonomiesRequest" -> {"get", "head"}
      [] type = "UsersRequest" -> {"get", "head", "post"}
      [] OTHER -> {"head", "get", "put", "post", "patch", "delete"}

Range(seq) == {seq[n] : n \in DOMAIN seq}

\* C8: construction yields an instance whose resource-specific fields are all
\* null, whose configuration is the passed options (the empty configuration
\* when none is passed) and whose permitted-verb set is the documented one.
C8_FreshInstance ==
    [][\A type \in Types, options \in {Undefined, CallerOptions} :
        Construct(type, options)
        => LET fresh == instances'[Len(instances')]
           IN  /\ fresh.type = type
               /\ \A f \in ResourceFields(type) : fresh[f] = Null
               /\ heap'[fresh._options] = (IF options = Undefined THEN EmptyOptions ELSE options)
               /\ Range(fresh._supportedMethods) = DocumentedMethods(type)
               /\ Len(fresh._supportedMethods) = Cardinality(DocumentedMethods(type))]_vars

\* an instance of each narrowed type was constructed, one with no options
C8_Witness ==
    /\ Len(instances) = 2
    /\ instances[1].type = "UsersRequest"
    /\ instances[2].type = "TaxonomiesRequest"
    /\ heap[instances[1]._options] = CallerOptions
    /\ heap[instances[2]._options] = EmptyOptions
    /\ last = Returned("new", 2, [instance |-> 2])

FieldNames == {"type", "_options", "_supportedMethods", "_id", "_action", "_actionId"}

\* the call assigned value to the field of instance i, changed nothing else
\* anywhere, and returned instance i
SetsOnly(i, field, value) ==
    /\ instances'[i][field] = value
    /\ \A f \in FieldNames \ {field} : instances'[i][f] = instances[i][f]
    /\ \A j \in DOMAIN instances : j # i => instances'[j] = instances[j]
    /\ DOMAIN instances' = DOMAIN instances
    /\ heap' = heap
    /\ calls' = calls
    /\ last'.outcome = "returned"
    /\ last'.value = [instance |-> i]

\* C9: each call of id, terms or me assigns exactly one field of the request
\* state, changes nothing else and returns the same instance; id(y) after
\* terms() on a taxonomies instance assigns the action-scoped id only.
C9_SetterFrame ==
    [][\A i \in DOMAIN instances :
        /\ terms(i) => SetsOnly(i, "_action", Str("terms"))
        /\ me(i) => \E f \in ResourceFields("UsersRequest") : SetsOnly(i, f, Str("me"))
        /\ \A x \in IdValues :
            id(i, x)
            => IF instances[i].type = "TaxonomiesRequest" /\ instances[i]._action = Str("terms")
               THEN SetsOnly(i, "_actionId", x)
               ELSE SetsOnly(i, "_id", x)]_vars

\* id(1337) was called after id('my-tax').terms(): the taxonomy id is kept
C9_Witness ==
    \E i \in DOMAIN instances :
        /\ instances[i].type = "TaxonomiesRequest"
        /\ instances[i]._id = Str("my-tax")
        /\ instances[i]._action = Str("terms")
        /\ instances[i]._actionId = Num(1337)
        /\ last = Returned("id", i, [instance |-> i])
        /\ \E j \in DOMAIN instances : instances[j]._id = Str("me")

GetRequest(i) ==
    [method |-> "get", url |-> RequestUri(i), Authorization |-> Undefined, data |-> Undefined]

\* what a caller of then( callback ) sees of request k once it is answered:
\* the callback receives the value get()'s promise is resolved with, and the
\* derived promise is rejected with the reason get()'s promise is rejected with
ThenOutcome(k) ==
    LET io == calls[k].io
        chain == calls[k].chain
    IN  (chain.chained /\ Answered(io))
        => /\ Len(Resolutions(io)) = 1 =>
                /\ Resolutions(io)[1].a = io.response.result.body
                /\ chain.log = <<Event(IF chain.onFulfilled = Fn("callback")
                                       THEN "onFulfilled" ELSE "resolve",
                                       io.response.result.body, Undefined)>>
           /\ Len(Rejections(io)) = 1 =>
                chain.log = <<Event("reject", Rejections(io)[1].a, Undefined)>>
           /\ Len(Resolutions(io)) + Len(Rejections(io)) = 0 => chain.log = <<>>
ThenOutcomes == \A k \in DOMAIN calls : ThenOutcome(k)

\* C11: then(callback) does what get().then(callback) does: it throws the
\* unsupported-method error where get is excluded, otherwise sends exactly one
\* GET request to generateRequestUri(), with no callback; callback then
\* receives the response body get()'s promise is resolved with, and a
\* rejection of get()'s promise rejects the promise then returned.
C11_ThenIsGetThen ==
    [][/\ \A i \in DOMAIN instances, callback \in CallbackValues :
            then(i, callback)
            => IF Permits(i, "get")
               THEN /\ Len(calls') = Len(calls) + 1
                    /\ SubSeq(calls', 1, Len(calls)) = calls
                    /\ calls'[Len(calls')].inst = i
                    /\ calls'[Len(calls')].chain = Chain(callback)
                    /\ calls'[Len(calls')].io.request = GetRequest(i)
                    /\ calls'[Len(calls')].io.transform = Fn("returnBody")
                    /\ calls'[Len(calls')].io.callback = noop
                    /\ calls'[Len(calls')].io.status = "pending"
                    /\ last' = Returned("then", i, [derived |-> Len(calls')])
               ELSE /\ calls' = calls
                    /\ last' = Threw("then", i, UnsupportedMethodError(instances[i].type))
       /\ ThenOutcomes']_vars

\* then(callback) was answered successfully and callback received the body
C11_Witness ==
    \E k \in DOMAIN calls :
        /\ calls[k].chain = [Chain(Fn("callback")) EXCEPT
                !.log = <<Event("onFulfilled", [body |-> k], Undefined)>>]
        /\ calls[k].io.request.method = "get"
        /\ IsSuccess(calls[k].io.response)
        /\ last = Returned("then", calls[k].inst, [derived |-> k])
\* 'username:password' of a configuration, written out for the configurations
\* an instance can have: the caller's credentials, or none
Credentials(options) ==
    IF options.username = Str("admin") /\ options.password = Str("secret")
    THEN Str("admin:secret")
    ELSE Str("undefined:undefined")

AuthVerbs == {"post", "put", "delete"}

\* C12: every transport request issued by post, put or delete carries the
\* Authorization header 'username:password' of the instance's configuration at
\* the time of the invocation, and no request issued by get or head carries
\* an Authorization header.
C12_AuthorizationHeader ==
    [][/\ Len(calls') > Len(calls)
          => LET call == calls'[Len(calls')]
                 options == heap[instances[call.inst]._options]
             IN  call.io.request.Authorization =
                     IF call.op \in AuthVerbs THEN Credentials(options) ELSE Undefined
       /\ \A k \in DOMAIN calls :
            /\ calls'[k].io.request = calls[k].io.request
            /\ calls[k].op \in {"get", "head"} <=> calls[k].io.request.Authorization = Undefined
            /\ calls[k].op \in AuthVerbs <=> IsStr(calls[k].io.request.Authorization)]_vars

\* a delete and a get were issued by an instance configured with credentials:
\* the first carries them, the second carries no header
C12_Witness ==
    \E k, n \in DOMAIN calls :
        /\ calls[k].inst = calls[n].inst
        /\ heap[instances[calls[k].inst]._options].username = Str("admin")
        /\ calls[k].op = "delete"
        /\ calls[k].io.request.Authorization = Str("admin:secret")
        /\ calls[n].op = "get"
        /\ calls[n].io.request.Authorization = Undefined
\* the resource fields of instance i that are set
SetFields(i) == {f \in ResourceFields(instances[i].type) : instances[i][f] # Null}

\* the path segments the fields of instance i contribute to its URI
PathSegments(i) ==
    CASE instances[i].type = "TaxonomiesRequest" ->
            Segments(<<instances[i]._id, instances[i]._action, instances[i]._actionId>>)
      [] instances[i].type = "UsersRequest" -> Segments(<<instances[i]._id>>)
      [] OTHER -> <<>>

\* C13: a resource field (id, action, actionId) of an instance that has become
\* set is never null again, whatever setter, verb invocation or delivery
\* follows, and the number of path segments of its URI never decreases.
C13_StateOnlyGainsDetail ==
    [][\A i \in DOMAIN instances :
        /\ i \in DOMAIN instances'
        /\ instances'[i].type = instances[i].type
        /\ SetFields(i) \subseteq SetFields(i)'
        /\ Len(PathSegments(i)) <= Len(PathSegments(i)')
        /\ Cardinality(SetFields(i)) = Len(PathSegments(i))]_vars

\* a taxonomies instance that went from no field to id and action set, the id
\* still there after terms() and a verb invocation
C13_Witness ==
    \E i \in DOMAIN instances, k \in DOMAIN calls :
        /\ instances[i].type = "TaxonomiesRequest"
        /\ SetFields(i) = {"_id", "_action"}
        /\ calls[k].inst = i
        /\ calls[k].io.request.url = Str("/wp-json/taxonomies/my-tax/terms")
\* the step is a verb invocation (returning or throwing) or a delivery
VerbOrDeliveryStep == last'.op \in Verbs \cup {"then"} \/ calls' # calls

\* C14: a verb invocation, whether it issues a request, is the patch no-op or
\* throws the unsupported-method error, and the delivery of a transport
\* response leave every instance's request state, configuration and
\* permitted-verb set as they were, so generateRequestUri() returns the same
\* URI after the step as before it.
C14_VerbsLeaveStateAlone ==
    [][VerbOrDeliveryStep
        => /\ instances' = instances
           /\ heap' = heap
           /\ \A i \in DOMAIN instances :
                /\ RequestUri(i)' = RequestUri(i)
                /\ instances'[i]._supportedMethods = instances[i]._supportedMethods
                /\ heap'[instances'[i]._options] = heap[instances[i]._options]]_vars

\* a request issued on an instance with an id was answered, and the instance
\* still generates the URI the request was sent to
C14_Witness ==
    \E k \in DOMAIN calls :
        /\ Answered(calls[k].io)
        /\ calls[k].op = "get"
        /\ instances[calls[k].inst]._id = Num(1337)
        /\ calls[k].io.request.url = RequestUri(calls[k].inst)
        /\ RequestUri(calls[k].inst) = Str("/wp-json/users/1337")
IssuingVerbs == {"get", "post", "put", "delete", "head"}

\* the transport verb a verb method uses
TransportVerb(verb) == IF verb = "delete" THEN "del" ELSE verb

\* the step is a call of a fluent setter
SetterStep == last'.op \in {"id", "terms", "me"} /\ last' # last

\* C15: an invocation of get, post, put, delete or head that passes the
\* method-support check adds exactly one transport call, of the matching
\* transport verb (del for delete), to the URI the instance generates at that
\* moment, leaving the earlier calls as they are; a request once issued never
\* changes, and a fluent setter call changes no call, in flight or answered.
C15_OneCallPerInvocation ==
    [][/\ (last'.op \in IssuingVerbs /\ last'.outcome = "returned" /\ last' # last)
          => /\ Permits(last'.inst, last'.op)
             /\ Len(calls') = Len(calls) + 1
             /\ SubSeq(calls', 1, Len(calls)) = calls
             /\ last'.value = [promise |-> Len(calls')]
             /\ calls'[Len(calls')].inst = last'.inst
             /\ calls'[Len(calls')].io.request.method = TransportVerb(last'.op)
             /\ calls'[Len(calls')].io.request.url = RequestUri(last'.inst)
             /\ calls'[Len(calls')].io.status = "pending"
             /\ calls'[Len(calls')].io.log = <<>>
       /\ \A k \in DOMAIN calls :
            /\ k \in DOMAIN calls'
            /\ calls'[k].inst = calls[k].inst
            /\ calls'[k].io.request = calls[k].io.request
       /\ SetterStep => calls' = calls]_vars

\* one instance was invoked twice with a setter call in between: two calls in
\* flight, the first to the URI before the setter, the second to the URI after
C15_Witness ==
    /\ Len(calls) = 2
    /\ calls[1].inst = calls[2].inst
    /\ calls[1].io.status = "pending"
    /\ calls[2].io.status = "pending"
    /\ calls[1].io.request.url = Str("/wp-json/users")
    /\ calls[2].io.request.url = Str("/wp-json/users/1337")
    /\ RequestUri(calls[1].inst) = Str("/wp-json/users/1337")
\* the values the response to request k consists of
OwnValues(k) ==
    LET response == calls[k].io.response
    IN  {Null, response.err}
        \cup (IF HasResult(response)
              THEN {response.result.body, response.result.headers, response.result.error}
              ELSE {})

\* what the caller of request k has seen comes from the response to request k,
\* its callback ran at most once and its promises settled at most once
OwnOutcome(k) ==
    LET io == calls[k].io
        chain == calls[k].chain
    IN  /\ io.response \in Responses(k) \cup {NoResponse}
        /\ io.status = "pending" <=> io.response = NoResponse
        /\ io.status = "pending" => io.log = <<>> /\ chain.log = <<>>
        /\ Len(CallbackCalls(io)) <= 1
        /\ Len(Resolutions(io)) + Len(Rejections(io)) <= 1
        /\ Len(chain.log) <= 1
        /\ \A e \in Range(io.log) :
                e.a \in OwnValues(k) /\ e.b \in OwnValues(k) \cup {Undefined}
        /\ \A e \in Range(chain.log) : e.a \in OwnValues(k)

\* the step is the delivery of a response
DeliveryStep == Len(calls') = Len(calls) /\ calls' # calls

InstanceView(j) ==
    [fields |-> instances[j], options |-> heap[instances[j]._options], uri |-> RequestUri(j)]

\* C17: an operation on one instance (a fluent setter call, a verb invocation
\* or a change of its configuration) changes the request state, permitted-verb
\* set, configuration and URI of no other instance, two instances constructed
\* from the same configuration value included.
C17_NoSharedState ==
    [][\A j \in DOMAIN instances :
        j # last'.inst => InstanceView(j)' = InstanceView(j)]_vars
\* the number of transport calls instance i has issued
CallsOf(i) == Cardinality({k \in DOMAIN calls : calls[k].inst = i})

\* the step is an invocation on instance i of a verb method that sends a
\* request, and the invocation returned
IssuingStep(i) ==
    /\ last'.inst = i
    /\ last'.op \in IssuingVerbs \cup {"then"}
    /\ last'.outcome = "returned"
    /\ last' # last

\* C18 as stated: no instance has issued more than one transport call.
C18_AtMostOneCallPerInstance == \A i \in Instances : CallsOf(i) <= 1

\* C18, amended: an instance issues exactly one transport call for each
\* returning invocation of get, post, put, delete, head or then on it, an
\* instance invoked twice having issued two; setter calls, patch, throwing
\* invocations, configuration changes and deliveries issue none.
C18_OneCallPerInvocation ==
    [][\A i \in Instances :
        CallsOf(i)' = CallsOf(i) + (IF IssuingStep(i) THEN 1 ELSE 0)]_vars

\* one instance has issued two transport calls
C18_Witness ==
    \E i \in DOMAIN instances :
        /\ CallsOf(i) = 2
        /\ calls[1].io.request.method = "get"
        /\ calls[2].io.request.method = "post"
====
